---- MODULE Spec2Model ----
(***************************************************************************)
(* A model of depict-derivative:                                           *)
(*   - the flat fact resolver of src/src/dot.rs (filter_fact, resolve,     *)
(*     render), checked as pure functions under SpecDot;                   *)
(*   - the desktop front end of src/dioxus/src/main.rs (parse_highlights,  *)
(*     the highlight style selection, and the two coroutines that carry    *)
(*     model edits to draw and drawings back to the view).                 *)
(***************************************************************************)
EXTENDS Integers, Sequences, FiniteSets, TLC

VARIABLES
    \* the flat resolver (dot.rs): the parsed store, the operation applied to it,
    \* its argument and its result
    store, op, arg, out,
    \* app(): the use_state values
    model, drawing, highlight, show_logs,
    \* app(): the component is scheduled for a render
    dirty,
    \* app(): what the last render computed from the highlight buffer
    hres, styles,
    \* the channels of the two coroutines: model_sender, drawing_sender
    modelQ, drawingQ,
    \* the model coroutine: prev_model, its position (awaiting rx.next(), inside
    \* draw, or ended) and the message it is processing
    prev_model, pc, cur,
    \* draw, a function of the text: returns a drawing, returns an error, panics
    drawFn,
    \* the number of input events (edits of either textarea, clicks) so far
    edits,
    \* history: the last receive of the model coroutine, the newest user edit
    \* whose receive is complete, and the drawing of the newest drawable edit
    cycle, doneEdit, expected

dotVars == <<store, op, arg, out>>
coVars == <<modelQ, drawingQ, prev_model, pc, cur, drawFn, edits,
            cycle, doneEdit, expected>>
vars == <<store, op, arg, out, model, drawing, highlight, show_logs, dirty, hres, styles,
          modelQ, drawingQ, prev_model, pc, cur, drawFn, edits,
          cycle, doneEdit, expected>>

(***************************************************************************)
(* ------------------------- src/src/dot.rs ------------------------------ *)
(***************************************************************************)

\* Fact::Atom(i) and Fact::Fact(i, fs) of diagrams::parser, as used in dot.rs.
Atom(i) == [tag |-> "Atom", id |-> i]
Fact(i, fs) == [tag |-> "Fact", id |-> i, body |-> fs]
\* A Syn that is not a fact (Syn::Directive): try_into::<&Fact> fails on it.
Directive(i) == [tag |-> "Directive", id |-> i]

\* e.try_into() at dot.rs:24: Ok(fact) for a fact, Err for anything else.
TryIntoFact(e) ==
    IF e.tag \in {"Atom", "Fact"} THEN [ok |-> TRUE, val |-> e] ELSE [ok |-> FALSE]

RECURSIVE Flatten(_)
\* Iterator::flatten over a sequence of bodies: the bodies' elements, in order.
Flatten(bodies) ==
    IF bodies = <<>> THEN <<>> ELSE Head(bodies) \o Flatten(Tail(bodies))

RECURSIVE FilterMapBodies(_, _)
\* The filter_map closure of filter_fact: keeps the body f of every element that
\* converts to Fact::Fact(i2, f) with i == i2, drops every other element.
FilterMapBodies(v, i) ==
    IF v = <<>> THEN <<>>
    ELSE LET r == TryIntoFact(Head(v))
             rest == FilterMapBodies(Tail(v), i)
         IN IF r.ok /\ r.val.tag = "Fact" /\ i = r.val.id
            THEN <<r.val.body>> \o rest
            ELSE rest

\* Faulty variant: stops at the first match (find_map instead of filter_map).
filter_fact_first(v, i) ==
    LET bs == FilterMapBodies(v, i) IN IF bs = <<>> THEN <<>> ELSE Head(bs)

\* filter_fact(v, i): v.filter_map(..).flatten()
filter_fact(v, i) == Flatten(FilterMapBodies(v, i))

\* Faulty variant: a Fact is looked up by its own head instead of being unwrapped.
resolve_lookup(v, r) == filter_fact(v, r.id)

\* resolve(v, r): an Atom is looked up in v, a Fact unwraps to its own body.
resolve(v, r) ==
    IF r.tag = "Atom" THEN filter_fact(v, r.id) ELSE r.body

\* Faulty variant: the name query of render runs against the whole store.
render_item_global(v, item) == filter_fact(v, "name")

\* The body of render's inner loop for one item of a compact hint (dot.rs:88-94):
\* the item is resolved against the store, and the query Atom("name") is
\* resolved against the resolved item; the result is what "rn:" prints.
render_item(v, item) == resolve(resolve(v, item), Atom("name"))

RECURSIVE RenderItems(_, _)
RenderItems(v, items) ==
    IF items = <<>> THEN <<>>
    ELSE <<[line |-> "rn", facts |-> render_item(v, Head(items))]>>
         \o RenderItems(v, Tail(items))

RECURSIVE RenderHints(_, _)
\* The loop over the hints of one drawing (dot.rs:84-99): only a
\* Fact("compact", items) hint prints anything.
RenderHints(v, hints) ==
    IF hints = <<>> THEN <<>>
    ELSE LET hint == Head(hints) IN
         (IF hint.tag = "Fact" /\ hint.id = "compact"
          THEN RenderItems(v, hint.body) ELSE <<>>)
         \o RenderHints(v, Tail(hints))

RECURSIVE RenderDraws(_, _)
\* The loop over ds (dot.rs:75-102).
RenderDraws(v, ds) ==
    IF ds = <<>> THEN <<>>
    ELSE <<[line |-> "digraph {"]>>
         \o RenderHints(v, resolve(v, Head(ds)))
         \o <<[line |-> "}"]>>
         \o RenderDraws(v, Tail(ds))

\* render(v): the lines printed, in order.
render(v) == <<[line |-> "ok"]>> \o RenderDraws(v, filter_fact(v, "draw"))


(***************************************************************************)
(* --------------------- src/dioxus/src/main.rs -------------------------- *)
(* Text buffers are sequences of one-character strings.                    *)
(***************************************************************************)
\* const PLACEHOLDER (main.rs:32-35): "k [ - s b ]\n- c s\n"
PLACEHOLDER ==
    <<"k", " ", "[", " ", "-", " ", "s", " ", "b", " ", "]", "\n",
      "-", " ", "c", " ", "s", "\n">>

\* char::is_whitespace, on the characters the buffers of this model hold.
IsWhitespace(c) == c \in {" ", "\n", "\t", "\r"}

RECURSIVE TrimStart(_)
TrimStart(t) ==
    IF t # <<>> /\ IsWhitespace(Head(t)) THEN TrimStart(Tail(t)) ELSE t

RECURSIVE TrimEnd(_)
TrimEnd(t) ==
    IF t # <<>> /\ IsWhitespace(t[Len(t)])
    THEN TrimEnd(SubSeq(t, 1, Len(t) - 1)) ELSE t

\* str::trim
Trim(t) == TrimEnd(TrimStart(t))

\* data.trim().is_empty()
IsBlank(t) == Trim(t) = <<>>

(***************************************************************************)
(* Val of depict::graph_drawing::eval, as main.rs matches on it.           *)
(***************************************************************************)
NoName == "<none>"
NoBody == [kind |-> "None", vals |-> <<>>]
All(bs) == [kind |-> "All", vals |-> bs]
Unbound == [bound |-> FALSE, path |-> <<>>]
BoundIn(p) == [bound |-> TRUE, path |-> p]

\* Val::Process { name, label, body }; scope records the binding that the
\* scope resolver attaches to a resolved reference.
Process(n, l, b) ==
    [tag |-> "Process", name |-> n, label |-> l, body |-> b, scope |-> Unbound]
\* Val::Chain { name, path, .. }
Chain(n, p) == [tag |-> "Chain", name |-> n, path |-> p]

\* Val::default()
ValDefault == Process(NoName, NoName, NoBody)

\* A bare name reference: a process that carries a label and nothing else.
Ref(x) == Process(NoName, x, NoBody)
IsRef(v) ==
    v.tag = "Process" /\ v.name = NoName /\ v.label # NoName /\ v.body = NoBody

Children(v) == IF v.tag = "Process" THEN v.body.vals ELSE v.path

RECURSIVE index(_, _, _)
RECURSIVE IndexAll(_, _, _)
\* index(val, path_stack, scope_map): the scope map after walking val. A node
\* that carries a name pushes it; every directly nested named child is
\* registered under the current path; the children are walked with that path.
index(val, path_stack, scopes) ==
    LET here == IF val.name # NoName THEN Append(path_stack, val.name) ELSE path_stack
        kids == Children(val)
        declared == {<<here, kids[k].name>> :
                        k \in {j \in 1..Len(kids) : kids[j].name # NoName}}
    IN IndexAll(kids, here, scopes \cup declared)

IndexAll(kids, path_stack, scopes) ==
    IF kids = <<>> THEN scopes
    ELSE IndexAll(Tail(kids), path_stack, index(Head(kids), path_stack, scopes))

RECURSIVE Lookup(_, _, _)
\* The nearest enclosing scope that declares x, walking path_stack from the
\* deepest prefix to the shallowest (the root scope, the empty path, last).
Lookup(x, path_stack, scopes) ==
    IF <<path_stack, x>> \in scopes THEN BoundIn(path_stack)
    ELSE IF path_stack = <<>> THEN Unbound
    ELSE Lookup(x, SubSeq(path_stack, 1, Len(path_stack) - 1), scopes)

RECURSIVE resolve_val(_, _, _)
\* resolve(val, path_stack, scope_map) of eval: every bare name reference is
\* bound to the nearest enclosing scope declaring it, or left as it is.
resolve_val(val, path_stack, scopes) ==
    IF IsRef(val)
    THEN LET b == Lookup(val.label, path_stack, scopes)
         IN IF b.bound THEN [val EXCEPT !.scope = b] ELSE val
    ELSE LET here == IF val.name # NoName THEN Append(path_stack, val.name)
                     ELSE path_stack
         IN IF val.tag = "Process"
            THEN [val EXCEPT !.body.vals =
                     [k \in 1..Len(val.body.vals) |->
                         resolve_val(val.body.vals[k], here, scopes)]]
            ELSE [val EXCEPT !.path =
                     [k \in 1..Len(val.path) |-> resolve_val(val.path[k], here, scopes)]]

RECURSIVE LexFrom(_, _)
\* Token::lexer(data): whitespace separates tokens; every other character of
\* the buffers of this model is one token, with its byte span and its slice.
LexFrom(t, pos) ==
    IF t = <<>> THEN <<>>
    ELSE IF IsWhitespace(Head(t)) THEN LexFrom(Tail(t), pos + 1)
    ELSE <<[span |-> <<pos, pos + 1>>, slice |-> <<Head(t)>>]>>
         \o LexFrom(Tail(t), pos + 1)

Lex(t) == LexFrom(t, 0)

\* A highlight buffer together with what the parser and the evaluator make of
\* it: rejectAt is the position of the first token Parser::parse rejects (0:
\* none, Len(tokens) + 1: end_of_input rejects), val is eval's tree.
HlBuffer(t, r, v) == [text |-> t, rejectAt |-> r, val |-> v]

\* Faulty variant: resolve is run against an empty scope map (index is skipped).
IndexThenResolveNoIndex(val) == resolve_val(val, <<>>, {})

\* main.rs:155-158: index from an empty path stack into a fresh map, then
\* resolve from an empty path stack against that map.
IndexThenResolve(val) == resolve_val(val, <<>>, index(val, <<>>, {}))

\* Faulty variant: a rejection is mapped to an error that is then dropped
\* (map_err without the ? operator); every token is fed.
ParseLoopIgnoreErr(tks, k, rejectAt) == [fed |-> Len(tks), rejected |-> FALSE]

RECURSIVE ParseLoop(_, _, _)
\* while let Some(tk) = lex.next() { p.parse(tk).map_err(..)? } (main.rs:
\* 133-140), from the k-th token on: fed is the number of tokens handed to
\* p.parse, the rejected one included; the ? returns at the first rejection.
ParseLoop(tks, k, rejectAt) ==
    IF k > Len(tks) THEN [fed |-> Len(tks), rejected |-> FALSE]
    ELSE IF k = rejectAt THEN [fed |-> k, rejected |-> TRUE]
    ELSE ParseLoop(tks, k + 1, rejectAt)

\* lex.span() and lex.slice() once lex.next() has returned None: next() moves
\* the start of the token to the end of the previous one, skipped whitespace
\* moves it on, and no token is produced: the empty span at the end of the
\* buffer and the empty slice.
ExhaustedSpan(text) == <<Len(text), Len(text)>>
ExhaustedSlice == <<>>

\* Kind::PomeloError{span: lex.span(), text: lex.slice().into()}
PomeloError(span, text) == [kind |-> "PomeloError", span |-> span, text |-> text]

\* Faulty variant: the blank check is dropped; a blank buffer goes to the lexer.
parse_highlights_noblank(data) ==
    [ok |-> TRUE, val |-> IndexThenResolve(data.val), fed |-> Len(Lex(data.text)),
     ran |-> {"lex", "parse", "eval", "index", "resolve"}]

\* parse_highlights(data) (main.rs:116-163). ran lists the stages that ran,
\* fed the number of tokens handed to the parser.
parse_highlights(data) ==
    IF IsBlank(data.text)
    THEN [ok |-> TRUE, val |-> ValDefault, fed |-> 0, ran |-> {}]
    ELSE LET tks == Lex(data.text)
             loop == ParseLoop(tks, 1, data.rejectAt)
         IN
         IF loop.rejected
         THEN [ok |-> FALSE, fed |-> loop.fed, ran |-> {"lex", "parse"},
               err |-> PomeloError(tks[loop.fed].span, tks[loop.fed].slice)]
         ELSE IF data.rejectAt = Len(tks) + 1
         THEN [ok |-> FALSE, fed |-> loop.fed, ran |-> {"lex", "parse"},
               err |-> PomeloError(ExhaustedSpan(data.text), ExhaustedSlice)]
         ELSE [ok |-> TRUE, val |-> IndexThenResolve(data.val), fed |-> loop.fed,
               ran |-> {"lex", "parse", "eval", "index", "resolve"}]

\* The or-pattern Val::Process { name: Some(p), .. } | Val::Process { label:
\* Some(p), .. }: whether it matches, and the name it binds.
IsNamedProcess(v) == v.tag = "Process" /\ (v.name # NoName \/ v.label # NoName)
ProcessName(v) == IF v.name # NoName THEN v.name ELSE v.label

\* Faulty variant: only the first end of the window is matched.
WindowStyleFirstEndOnly(p, q) ==
    IF IsNamedProcess(p)
    THEN <<[rule |-> "edge", from |-> ProcessName(p), to |-> ProcessName(q)]>>
    ELSE <<>>

\* main.rs:264-288: the style of one window of two adjacent path elements.
WindowStyle(p, q) ==
    IF IsNamedProcess(p) /\ IsNamedProcess(q)
    THEN <<[rule |-> "edge", from |-> ProcessName(p), to |-> ProcessName(q)]>>
    ELSE <<>>

RECURSIVE WindowStyles(_)
\* path.windows(2).map(..)
WindowStyles(path) ==
    IF Len(path) < 2 THEN <<>>
    ELSE <<WindowStyle(path[1], path[2])>> \o WindowStyles(Tail(path))

\* Faulty variant: only a process with a name is selected; its label is ignored.
ElementStyleNameOnly(b) ==
    IF b.tag = "Process" /\ b.name # NoName
    THEN [elem |-> "process", rules |-> <<[rule |-> "box", name |-> b.name]>>]
    ELSE [elem |-> "unstyled", rules |-> <<>>]

\* main.rs:243-295: the style of one element of the query's top-level body.
ElementStyle(b) ==
    IF IsNamedProcess(b)
    THEN [elem |-> "process", rules |-> <<[rule |-> "box", name |-> ProcessName(b)]>>]
    ELSE IF b.tag = "Chain" /\ b.name # NoName
    THEN [elem |-> "chain", rules |-> <<[rule |-> "arrow", name |-> b.name]>>]
    ELSE IF b.tag = "Chain"
    THEN [elem |-> "path", rules |-> WindowStyles(b.path)]
    ELSE [elem |-> "unstyled", rules |-> <<>>]

\* highlight_styles (main.rs:238-310) for the result r of parse_highlights.
highlight_styles(r) ==
    IF r.ok /\ r.val.tag = "Process" /\ r.val.body.kind = "All"
    THEN [kind |-> "styles",
          elems |-> [k \in 1..Len(r.val.body.vals) |-> ElementStyle(r.val.body.vals[k])]]
    ELSE IF ~r.ok
    THEN [kind |-> "error", elems |-> <<>>]
    ELSE [kind |-> "empty", elems |-> <<>>]


(***************************************************************************)
(* The coroutines of app (main.rs:165-226).                                *)
(***************************************************************************)
\* Drawing::default() and the drawing draw returns for a text.
DefaultDrawing == [default |-> TRUE, of |-> <<>>]
DrawingOf(t) == [default |-> FALSE, of |-> t]

\* Option<String>
None == [some |-> FALSE, v |-> <<>>]
Some(t) == [some |-> TRUE, v |-> t]

\* A message of the model channel: the text sent; edit is the number of the
\* user edit that sent it (0 when a render sent it).
Msg(t, k) == [text |-> t, edit |-> k]
NoMsg == Msg(<<>>, 0)

\* The texts the user types into the model textarea, and those draw is run on.
EditTexts == {<<>>, <<" ", "\n">>, <<"a">>}
DrawTexts == {PLACEHOLDER, <<"a">>}

NoText == <<"<none>">>
NoDrawing == [default |-> FALSE, of |-> NoText]
\* text: the text received last; prevText, prevResult: the text received before
\* it and how its cycle ended; drew: draw was called for text; sent: the
\* drawing sent for it, if any; result: how its cycle ended.
NoCycle ==
    [text |-> NoText, prevText |-> NoText, prevResult |-> "none",
     drew |-> FALSE, sent |-> NoDrawing, result |-> "none"]

\* UnboundedSender::send
Send(q, m) == Append(q, m)

\* Faulty variant: the check against prev_model is missing.
ShouldProcessAlways(m, prev) == TRUE

\* main.rs:184: Some(&model) != prev_model.as_ref()
ShouldProcess(m, prev) == Some(m) # prev

\* Faulty variant: the panic is not caught and unwinds through the coroutine.
NoCatchUnwind(t, outcome) ==
    IF outcome = "ok" THEN [tag |-> "OkOk", drawing |-> DrawingOf(t)]
    ELSE IF outcome = "err" THEN [tag |-> "OkErr", drawing |-> DefaultDrawing]
    ELSE [tag |-> "Unwound", drawing |-> DefaultDrawing]

\* main.rs:189-191: catch_unwind(|| draw(model.clone())) where draw behaves
\* as outcome says: Ok(Ok(drawing)), Ok(Err(err)) or Err(panic payload).
CatchUnwind(t, outcome) ==
    IF outcome = "ok" THEN [tag |-> "OkOk", drawing |-> DrawingOf(t)]
    ELSE IF outcome = "err" THEN [tag |-> "OkErr", drawing |-> DefaultDrawing]
    ELSE [tag |-> "Err", drawing |-> DefaultDrawing]

\* Faulty variant: a successful cycle sends its drawing but does not record
\* the model (prev_model = Some(model) is missing).
CompleteForgetPrev(nodes, m, prev, dq) ==
    IF nodes.tag = "OkOk"
    THEN [prev |-> prev, dq |-> Send(dq, nodes.drawing), pc |-> "idle",
          sent |-> nodes.drawing, result |-> "ok"]
    ELSE [prev |-> prev, dq |-> dq, pc |-> "idle", sent |-> NoDrawing,
          result |-> IF nodes.tag = "OkErr" THEN "err" ELSE "panic"]

\* Faulty variant: the model is recorded in every arm, also when draw failed.
CompleteSetPrevOnError(nodes, m, prev, dq) ==
    IF nodes.tag = "OkOk"
    THEN [prev |-> Some(m), dq |-> Send(dq, nodes.drawing), pc |-> "idle",
          sent |-> nodes.drawing, result |-> "ok"]
    ELSE [prev |-> Some(m), dq |-> dq, pc |-> "idle", sent |-> NoDrawing,
          result |-> IF nodes.tag = "OkErr" THEN "err" ELSE "panic"]

\* Faulty variant: a failed cycle clears the display (the default drawing is sent).
CompleteClearOnError(nodes, m, prev, dq) ==
    IF nodes.tag = "OkOk"
    THEN [prev |-> Some(m), dq |-> Send(dq, nodes.drawing), pc |-> "idle",
          sent |-> nodes.drawing, result |-> "ok"]
    ELSE [prev |-> prev, dq |-> Send(dq, DefaultDrawing), pc |-> "idle",
          sent |-> DefaultDrawing,
          result |-> IF nodes.tag = "OkErr" THEN "err" ELSE "panic"]

\* Faulty variant: an error returned by draw ends the loop of the coroutine.
CompleteStopOnError(nodes, m, prev, dq) ==
    IF nodes.tag = "OkOk"
    THEN [prev |-> Some(m), dq |-> Send(dq, nodes.drawing), pc |-> "idle",
          sent |-> nodes.drawing, result |-> "ok"]
    ELSE [prev |-> prev, dq |-> dq, pc |-> "ended", sent |-> NoDrawing,
          result |-> IF nodes.tag = "OkErr" THEN "err" ELSE "panic"]

\* main.rs:194-210: match nodes. Ok(Ok(drawing)) records the model and sends
\* the drawing; Ok(Err(err)) and Err(_) only log. A panic that was not caught
\* ends the coroutine.
Complete(nodes, m, prev, dq) ==
    IF nodes.tag = "OkOk"
    THEN [prev |-> Some(m), dq |-> Send(dq, nodes.drawing), pc |-> "idle",
          sent |-> nodes.drawing, result |-> "ok"]
    ELSE IF nodes.tag = "OkErr"
    THEN [prev |-> prev, dq |-> dq, pc |-> "idle", sent |-> NoDrawing, result |-> "err"]
    ELSE IF nodes.tag = "Err"
    THEN [prev |-> prev, dq |-> dq, pc |-> "idle", sent |-> NoDrawing, result |-> "panic"]
    ELSE [prev |-> prev, dq |-> dq, pc |-> "ended", sent |-> NoDrawing, result |-> "panic"]


DotIdle ==
    /\ store = <<>>
    /\ op = "none"
    /\ arg = "none"
    /\ out = <<>>

(***************************************************************************)
(* Inputs of the highlight path.                                           *)
(***************************************************************************)
\* A named process without a body: a declaration of its name where it stands.
Decl(x) == Process(x, NoName, NoBody)

ScopeSlots == {"root", "A", "AB", "ABC", "AD"}

DeclIf(D, slot) == IF slot \in D THEN <<Decl("x")>> ELSE <<>>

\* The tree  root { A { B { C { x } } D { x } } }  in which x is referenced
\* from C and from D and declared in the scopes of D (a subset of ScopeSlots);
\* B is a process or, with chainB, a named chain.
ScopeTree(D, chainB) ==
    LET c == Process("C", NoName, All(DeclIf(D, "ABC") \o <<Ref("x")>>))
        b == IF chainB
             THEN Chain("B", DeclIf(D, "AB") \o <<c>>)
             ELSE Process("B", NoName, All(DeclIf(D, "AB") \o <<c>>))
        d == Process("D", NoName, All(DeclIf(D, "AD") \o <<Ref("x")>>))
        a == Process("A", NoName, All(DeclIf(D, "A") \o <<b, d>>))
    IN Process(NoName, NoName, All(DeclIf(D, "root") \o <<a>>))

ScopeTrees == {ScopeTree(D, cb) : D \in SUBSET ScopeSlots, cb \in BOOLEAN}

\* Highlight queries: the top-level body of the evaluated query.
Query(bs) == Process(NoName, NoName, All(bs))

Anonymous == Process(NoName, NoName, All(<<>>))

QueryTrees ==
    { Query(<<Ref("a")>>),
      Query(<<Ref("z")>>),
      Query(<<Decl("k"), Ref("a")>>),
      Query(<<Process("s", "b", NoBody)>>),
      Query(<<Anonymous, Ref("k")>>),
      Query(<<Chain("c", <<Ref("a"), Ref("k")>>)>>),
      Query(<<Chain(NoName, <<Ref("a"), Ref("k"), Ref("z")>>)>>),
      Query(<<Chain(NoName, <<Ref("a")>>), Ref("z")>>),
      Query(<<Chain(NoName, <<Ref("a"), Anonymous, Ref("k")>>), Ref("a")>>),
      Query(<<Anonymous, Chain(NoName, <<Ref("a")>>),
              Chain(NoName, <<Ref("a"), Ref("k"), Anonymous>>),
              Process("s", "b", NoBody)>>) }

RECURSIVE Show(_)
RECURSIVE ShowAll(_, _)
\* The source text of a tree in the grammar of the language: "name : label",
\* a bracketed body "[ child child ]", a chain "- p q r".
Show(v) ==
    LET named == IF v.name # NoName THEN <<v.name, ":">> ELSE <<>> IN
    IF v.tag = "Chain"
    THEN named \o <<"-", " ">> \o ShowAll(v.path, " ")
    ELSE named
         \o (IF v.label # NoName THEN <<v.label>> ELSE <<>>)
         \o (IF v.body.kind = "All"
             THEN <<"[", " ">> \o ShowAll(v.body.vals, " ") \o <<" ", "]">>
             ELSE <<>>)

ShowAll(vs, sep) ==
    IF vs = <<>> THEN <<>>
    ELSE IF Len(vs) = 1 THEN Show(vs[1])
    ELSE Show(vs[1]) \o <<sep>> \o ShowAll(Tail(vs), sep)

\* The text of a whole buffer: its top-level elements, one per line.
ShowBuffer(v) == ShowAll(v.body.vals, "\n") \o <<"\n">>

BlankTexts == {<<>>, <<" ">>, <<" ", "\n">>, <<"\t">>}

\* The rejected buffers: every position of the first rejected token.
RejectedTree == Query(<<Ref("a"), Ref("k")>>)

\* "k [ - s": a bracket left open, rejected by end_of_input; "k ] s": a stray
\* closing bracket, rejected where it stands. Neither reaches eval.
UnterminatedText == <<"k", " ", "[", " ", "-", " ", "s">>
StrayCloseText == <<"k", " ", "]", " ", "s">>

HlInputs ==
    {HlBuffer(t, 0, ValDefault) : t \in BlankTexts}
    \cup {HlBuffer(ShowBuffer(v), 0, v) : v \in ScopeTrees \cup QueryTrees}
    \cup {HlBuffer(ShowBuffer(RejectedTree), r, RejectedTree) :
             r \in 0..(Len(Lex(ShowBuffer(RejectedTree))) + 1)}
    \cup {HlBuffer(UnterminatedText, Len(Lex(UnterminatedText)) + 1, RejectedTree),
          HlBuffer(StrayCloseText, 2, RejectedTree)}

HlModels == {PLACEHOLDER, <<"a">>, <<>>}

\* The render has not run yet.
Unrendered == [kind |-> "unrendered", elems |-> <<>>]
NoResult == [data |-> HlBuffer(<<>>, 0, ValDefault), res |-> [ok |-> TRUE, val |-> ValDefault, fed |-> 0, ran |-> {}]]

CoIdle ==
    /\ modelQ = <<>>
    /\ drawingQ = <<>>
    /\ prev_model = None
    /\ pc = "idle"
    /\ cur = NoMsg
    /\ drawFn = [t \in DrawTexts |-> "ok"]
    /\ edits = 0
    /\ cycle = NoCycle
    /\ doneEdit = 0
    /\ expected = DefaultDrawing

AppIdle ==
    /\ show_logs = TRUE
    /\ model = <<>>
    /\ drawing = DefaultDrawing
    /\ highlight = HlBuffer(<<>>, 0, ValDefault)
    /\ dirty = FALSE
    /\ hres = NoResult
    /\ styles = Unrendered
    /\ CoIdle

InitHl ==
    /\ show_logs = TRUE
    /\ model \in HlModels
    /\ highlight \in HlInputs
    /\ drawing = DefaultDrawing
    /\ dirty = TRUE
    /\ hres = NoResult
    /\ styles = Unrendered
    /\ DotIdle
    /\ CoIdle

Max(a, b) == IF a >= b THEN a ELSE b

MaxEdits == 2

\* The highlight buffers the user types while the coroutines run.
AppHlInputs ==
    { HlBuffer(<<" ">>, 0, ValDefault),
      HlBuffer(ShowBuffer(RejectedTree), 0, RejectedTree) }

\* Whether a text is drawn successfully (a blank text needs no draw).
Drawable(t) == IsBlank(t) \/ drawFn[t] = "ok"
ResultOf(t) == IF IsBlank(t) THEN DefaultDrawing ELSE DrawingOf(t)

\* The state of app before its first render (main.rs:166-168, 182).
InitApp ==
    /\ model = PLACEHOLDER
    /\ drawing = DefaultDrawing
    /\ highlight = HlBuffer(<<>>, 0, ValDefault)
    /\ show_logs = TRUE
    /\ dirty = TRUE
    /\ hres = NoResult
    /\ styles = Unrendered
    /\ modelQ = <<>>
    /\ drawingQ = <<>>
    /\ prev_model = None
    /\ pc = "idle"
    /\ cur = NoMsg
    /\ drawFn \in [DrawTexts -> {"ok", "err", "panic"}]
    /\ edits = 0
    /\ cycle = NoCycle
    /\ doneEdit = 0
    /\ expected = IF drawFn[PLACEHOLDER] = "ok" THEN DrawingOf(PLACEHOLDER)
                  ELSE DefaultDrawing
    /\ DotIdle

\* One render of app: the current model text is sent to the model coroutine
\* (main.rs:226) and the highlight styles are computed (main.rs:238-310).
Render ==
    /\ dirty
    /\ dirty' = FALSE
    /\ modelQ' = Send(modelQ, Msg(model, 0))
    /\ hres' = [data |-> highlight, res |-> parse_highlights(highlight)]
    /\ styles' = highlight_styles(parse_highlights(highlight))
    /\ UNCHANGED <<model, drawing, highlight, drawingQ, prev_model, pc, cur, drawFn,
                   edits, cycle, doneEdit, expected>>
    /\ UNCHANGED dotVars
    /\ UNCHANGED show_logs

\* oninput of the model textarea (main.rs:351-355); the textarea and its
\* handler exist once app has rendered.
OnInput ==
    /\ styles.kind # "unrendered"
    /\ edits < MaxEdits
    /\ \E v \in EditTexts :
        /\ model' = v
        /\ modelQ' = Send(modelQ, Msg(v, edits + 1))
        /\ expected' = IF Drawable(v) THEN ResultOf(v) ELSE expected
    /\ dirty' = TRUE
    /\ edits' = edits + 1
    /\ UNCHANGED <<drawing, highlight, hres, styles, drawingQ, prev_model, pc, cur,
                   drawFn, cycle, doneEdit>>
    /\ UNCHANGED dotVars
    /\ UNCHANGED show_logs

\* oninput of the highlight textarea (main.rs:370-373).
OnHighlightInput ==
    /\ styles.kind # "unrendered"
    /\ edits < MaxEdits
    /\ \E h \in AppHlInputs : highlight' = h
    /\ dirty' = TRUE
    /\ edits' = edits + 1
    /\ UNCHANGED <<model, drawing, hres, styles, modelQ, drawingQ, prev_model, pc, cur,
                   drawFn, cycle, doneEdit, expected>>
    /\ UNCHANGED dotVars
    /\ UNCHANGED show_logs

\* onclick of the "Show debug logs" button (main.rs:437): show_logs is
\* negated, which schedules a render; no buffer changes.
OnShowLogsClick ==
    /\ styles.kind # "unrendered"
    /\ edits < MaxEdits
    /\ show_logs' = ~show_logs
    /\ dirty' = TRUE
    /\ edits' = edits + 1
    /\ UNCHANGED <<model, drawing, highlight, hres, styles, modelQ, drawingQ,
                   prev_model, pc, cur, drawFn, cycle, doneEdit, expected>>
    /\ UNCHANGED dotVars

\* The drawing coroutine (main.rs:173-175): drawing.set(msg).
DrawingRecv ==
    /\ drawingQ # <<>>
    /\ drawing' = Head(drawingQ)
    /\ drawingQ' = Tail(drawingQ)
    /\ dirty' = TRUE
    /\ UNCHANGED <<model, highlight, hres, styles, modelQ, prev_model, pc, cur, drawFn,
                   edits, cycle, doneEdit, expected>>
    /\ UNCHANGED dotVars
    /\ UNCHANGED show_logs

\* What the model coroutine does with a received message m, up to the call of
\* draw (main.rs:183-192); process says whether the check of line 184 passed.
Receive(m, process) ==
    /\ modelQ' = Tail(modelQ)
    /\ IF ~process
       THEN /\ cycle' = [text |-> m.text, prevText |-> cycle.text,
                         prevResult |-> cycle.result,
                         drew |-> FALSE, sent |-> NoDrawing, result |-> "skipped"]
            /\ doneEdit' = Max(doneEdit, m.edit)
            /\ UNCHANGED <<prev_model, drawingQ, pc, cur>>
       ELSE IF IsBlank(m.text)
       THEN LET c == Complete([tag |-> "OkOk", drawing |-> DefaultDrawing],
                              m.text, prev_model, drawingQ)
            IN /\ cycle' = [text |-> m.text, prevText |-> cycle.text,
                            prevResult |-> cycle.result,
                            drew |-> FALSE, sent |-> c.sent, result |-> "default"]
               /\ prev_model' = c.prev
               /\ drawingQ' = c.dq
               /\ pc' = c.pc
               /\ doneEdit' = Max(doneEdit, m.edit)
               /\ UNCHANGED cur
       ELSE /\ cycle' = [text |-> m.text, prevText |-> cycle.text,
                         prevResult |-> cycle.result,
                         drew |-> TRUE, sent |-> NoDrawing, result |-> "drawing"]
            /\ pc' = "draw"
            /\ cur' = m
            /\ UNCHANGED <<prev_model, drawingQ, doneEdit>>
    /\ UNCHANGED <<model, drawing, highlight, dirty, hres, styles, drawFn, edits,
                   expected>>
    /\ UNCHANGED dotVars
    /\ UNCHANGED show_logs

\* The model coroutine receives the next message (main.rs:183-198).
ModelTake ==
    /\ pc = "idle"
    /\ modelQ # <<>>
    /\ Receive(Head(modelQ), ShouldProcess(Head(modelQ).text, prev_model))

\* draw returns, fails or panics and the result is matched (main.rs:189-210).
DrawReturn ==
    /\ pc = "draw"
    /\ LET c == Complete(CatchUnwind(cur.text, drawFn[cur.text]), cur.text,
                         prev_model, drawingQ)
       IN /\ prev_model' = c.prev
          /\ drawingQ' = c.dq
          /\ pc' = c.pc
          /\ cycle' = [cycle EXCEPT !.sent = c.sent, !.result = c.result]
    /\ doneEdit' = Max(doneEdit, cur.edit)
    /\ cur' = NoMsg
    /\ UNCHANGED <<model, drawing, highlight, dirty, hres, styles, modelQ, drawFn,
                   edits, expected>>
    /\ UNCHANGED dotVars
    /\ UNCHANGED show_logs

Next ==
    \/ Render
    \/ OnInput
    \/ OnHighlightInput
    \/ OnShowLogsClick
    \/ DrawingRecv
    \/ ModelTake
    \/ DrawReturn

Spec == InitApp /\ [][Next]_vars

\* The scheduler runs every coroutine that has a message and renders every
\* component marked dirty; the user may stop typing at any time.
Fairness ==
    /\ WF_vars(Render)
    /\ WF_vars(DrawingRecv)
    /\ WF_vars(ModelTake)
    /\ WF_vars(DrawReturn)

FairSpec == Spec /\ Fairness

\* The highlight path: app with each highlight buffer in place, its renders
\* and its coroutines, the user not typing.
NextHl == Render \/ DrawingRecv \/ ModelTake \/ DrawReturn

SpecHl == InitHl /\ [][NextHl]_vars

\* The system of C10: the model coroutine with the check of line 184 removed.
ModelTakeNoDedup ==
    /\ pc = "idle"
    /\ modelQ # <<>>
    /\ Receive(Head(modelQ), TRUE)

NextNoDedup ==
    \/ Render
    \/ OnInput
    \/ OnHighlightInput
    \/ OnShowLogsClick
    \/ DrawingRecv
    \/ ModelTakeNoDedup
    \/ DrawReturn

FairSpecNoDedup ==
    /\ InitApp
    /\ [][NextNoDedup]_vars
    /\ WF_vars(Render)
    /\ WF_vars(DrawingRecv)
    /\ WF_vars(ModelTakeNoDedup)
    /\ WF_vars(DrawReturn)

(***************************************************************************)
(* Inputs of the flat resolver.                                            *)
(***************************************************************************)
MaxStore == 3

Idents == {"a", "b", "name", "draw", "d", "compact"}

SynItems ==
    { Atom("a"),
      Directive("draw"),
      Fact("a", <<>>),
      Fact("a", <<Atom("n1"), Atom("n2")>>),
      Fact("a", <<Fact("name", <<Atom("n1")>>)>>),
      Fact("name", <<Atom("n2")>>),
      Fact("b", <<Atom("a"), Fact("a", <<Atom("n2")>>)>>),
      Fact("draw", <<Fact("d", <<Fact("compact",
            <<Atom("a"), Fact("b", <<Fact("name", <<Atom("n2")>>)>>)>>)>>)>>),
      Fact("draw", <<Atom("d")>>),
      Fact("d", <<Fact("compact", <<Atom("a")>>), Fact("b", <<Atom("a")>>)>>) }

Stores == UNION {[1..n -> SynItems] : n \in 0..MaxStore}

QueryFacts ==
    {Atom(i) : i \in Idents}
    \cup { Fact("a", <<>>),
           Fact("a", <<Atom("n1"), Atom("n2")>>),
           Fact("name", <<Atom("n2")>>),
           Fact("b", <<Atom("a"), Fact("a", <<Atom("n2")>>)>>) }

InitDot ==
    /\ store \in Stores
    /\ op = "none"
    /\ arg = "none"
    /\ out = <<>>
    /\ AppIdle

\* filter_fact(store.iter(), &name)
DoFilterFact ==
    /\ op = "none"
    /\ \E name \in Idents :
        /\ op' = "filter_fact"
        /\ arg' = name
        /\ out' = filter_fact(store, name)
    /\ UNCHANGED <<store, model, drawing, highlight, dirty, hres, styles>>
    /\ UNCHANGED coVars
    /\ UNCHANGED show_logs

\* resolve(store.iter(), &fact)
DoResolve ==
    /\ op = "none"
    /\ \E fact \in QueryFacts :
        /\ op' = "resolve"
        /\ arg' = fact
        /\ out' = resolve(store, fact)
    /\ UNCHANGED <<store, model, drawing, highlight, dirty, hres, styles>>
    /\ UNCHANGED coVars
    /\ UNCHANGED show_logs

\* render(store)
DoRender ==
    /\ op = "none"
    /\ op' = "render"
    /\ arg' = "none"
    /\ out' = render(store)
    /\ UNCHANGED <<store, model, drawing, highlight, dirty, hres, styles>>
    /\ UNCHANGED coVars
    /\ UNCHANGED show_logs

NextDot == DoFilterFact \/ DoResolve \/ DoRender

SpecDot == InitDot /\ [][NextDot]_vars

(***************************************************************************)
(* Properties of the flat resolver.                                        *)
(***************************************************************************)
\* Positions of the entries of v that are facts with head i.
MatchesAt(v, i) == {k \in 1..Len(v) : v[k].tag = "Fact" /\ v[k].id = i}

RECURSIVE BodyLenBefore(_, _, _)
\* Total length of the bodies of the entries matching i at positions below k.
BodyLenBefore(v, i, k) ==
    IF k <= 1 THEN 0
    ELSE BodyLenBefore(v, i, k - 1)
         + (IF (k - 1) \in MatchesAt(v, i) THEN Len(v[k - 1].body) ELSE 0)

\* o is the concatenation, in the order of v, of the bodies of the entries of v
\* with head i: each child of each matching body sits at its own offset.
IsConcatOfMatches(v, i, o) ==
    /\ Len(o) = BodyLenBefore(v, i, Len(v) + 1)
    /\ \A k \in MatchesAt(v, i) : \A j \in 1..Len(v[k].body) :
          o[BodyLenBefore(v, i, k) + j] = v[k].body[j]

\* C1: filter_fact(store, name) is exactly the concatenation, in store order, of
\* the bodies of the store's facts whose head is name (all of them when the head
\* is duplicated), and is empty when no fact of the store has that head.
C1_FilterFactConcat ==
    op = "filter_fact" =>
        /\ IsConcatOfMatches(store, arg, out)
        /\ (MatchesAt(store, arg) = {} => out = <<>>)

\* C1 witness: a name with two facts in the store, both bodies in the output.
C1_Witness ==
    /\ op = "filter_fact"
    /\ Cardinality(MatchesAt(store, arg)) >= 2
    /\ \E k1, k2 \in MatchesAt(store, arg) :
          k1 < k2 /\ Len(store[k1].body) = 2 /\ Len(store[k2].body) = 1
    /\ Len(out) >= 3

RECURSIVE FactsWithin(_)
\* Every Fact entry of a sequence of entries, at any nesting depth.
FactsWithin(v) ==
    IF v = <<>> THEN {}
    ELSE LET e == Head(v) IN
         (IF e.tag = "Fact" THEN {e} \cup FactsWithin(e.body) ELSE {})
         \cup FactsWithin(Tail(v))

Range(s) == {s[k] : k \in 1..Len(s)}

\* C2 as stated: every Fact entry with head name, at the top level of the store
\* or nested in another fact's body, contributes its body to filter_fact's output.
C2_GlobalNamespace ==
    op = "filter_fact" =>
        \A f \in FactsWithin(store) : f.id = arg => Range(f.body) \subseteq Range(out)

RECURSIVE CompactItemsOfHints(_)
CompactItemsOfHints(hints) ==
    IF hints = <<>> THEN <<>>
    ELSE (IF Head(hints).tag = "Fact" /\ Head(hints).id = "compact"
          THEN Head(hints).body ELSE <<>>)
         \o CompactItemsOfHints(Tail(hints))

RECURSIVE CompactItemsOfDraws(_, _)
\* The items render visits, in order: for every drawing, for every compact hint.
CompactItemsOfDraws(v, ds) ==
    IF ds = <<>> THEN <<>>
    ELSE CompactItemsOfHints(resolve(v, Head(ds)))
         \o CompactItemsOfDraws(v, Tail(ds))

RnLines(o) == SelectSeq(o, LAMBDA l : l.line = "rn")

\* C2 amended: filter_fact matches only the entries of the sequence it is given.
\* A name that heads facts only inside other facts' bodies resolves to nothing
\* against the store, and the "name" query of render is answered from the
\* entries of the resolved item alone, not from the store.
C2_TopLevelOnly ==
    /\ (op = "filter_fact" /\ MatchesAt(store, arg) = {}) => out = <<>>
    /\ op = "render" =>
          LET items == CompactItemsOfDraws(store, filter_fact(store, "draw"))
              rn == RnLines(out)
          IN /\ Len(rn) = Len(items)
             /\ \A k \in 1..Len(items) :
                   IsConcatOfMatches(resolve(store, items[k]), "name", rn[k].facts)

\* C2 witness: render answers a "name" query from the resolved item while the
\* store holds a top-level "name" fact that the answer leaves out.
C2_Witness ==
    /\ op = "render"
    /\ MatchesAt(store, "name") # {}
    /\ \E k \in 1..Len(out) :
          out[k].line = "rn" /\ out[k].facts = <<Atom("n1")>>

\* C3: resolve(store, fact) is filter_fact(store, name) for Atom(name), and is
\* exactly the children of Fact(_, children), whatever the store holds.
C3_ResolveCases ==
    op = "resolve" =>
        IF arg.tag = "Atom"
        THEN IsConcatOfMatches(store, arg.id, out)
        ELSE out = arg.body

\* C3 witness: a Fact is resolved while the store holds a fact with the same
\* head and another body; the result is the Fact's own children.
C3_Witness ==
    /\ op = "resolve"
    /\ arg.tag = "Fact"
    /\ \E k \in MatchesAt(store, arg.id) : store[k].body # arg.body /\ store[k].body # <<>>
    /\ out = arg.body
    /\ out # <<>>

(***************************************************************************)
(* Properties of the highlight path.                                       *)
(***************************************************************************)
Rendered == styles.kind # "unrendered"

HasChildNamed(v, x) ==
    \E k \in 1..Len(Children(v)) : Children(v)[k].name = x

ChildNamed(v, x) ==
    Children(v)[CHOOSE k \in 1..Len(Children(v)) : Children(v)[k].name = x]

RECURSIVE HasNodeAt(_, _)
\* Whether following the names of path p from v leads to a node.
HasNodeAt(v, p) ==
    IF p = <<>> THEN TRUE
    ELSE HasChildNamed(v, Head(p)) /\ HasNodeAt(ChildNamed(v, Head(p)), Tail(p))

RECURSIVE NodeAt(_, _)
NodeAt(v, p) == IF p = <<>> THEN v ELSE NodeAt(ChildNamed(v, Head(p)), Tail(p))

\* x is declared directly in the scope p of tree.
DeclaredIn(tree, p, x) == HasNodeAt(tree, p) /\ HasChildNamed(NodeAt(tree, p), x)

Prefixes(p) == {SubSeq(p, 1, k) : k \in 0..Len(p)}

\* The binding lexical scoping gives a reference to x made in scope p: the
\* longest prefix of p that declares x, none when no prefix does.
InnermostBinding(tree, p, x) ==
    LET declaring == {q \in Prefixes(p) : DeclaredIn(tree, q, x)}
    IN IF declaring = {} THEN Unbound
       ELSE BoundIn(CHOOSE q \in declaring : \A q2 \in declaring : Len(q2) <= Len(q))

RECURSIVE RefsOf(_, _)
\* The references of a tree, each with the scope path it is made in.
RefsOf(v, p) ==
    IF IsRef(v) THEN {<<p, v>>}
    ELSE LET here == IF v.name # NoName THEN Append(p, v.name) ELSE p
         IN UNION {RefsOf(Children(v)[k], here) : k \in 1..Len(Children(v))}

\* C5: in the tree parse_highlights returns, every reference is bound to the
\* innermost enclosing scope that declares its name and is left as it was,
\* without an error, when no enclosing scope does; so a name declared only in
\* [A, B] is bound from within [A, B, C] and stays unresolved in [A, D].
C5_LexicalScoping ==
    (Rendered /\ "resolve" \in hres.res.ran) =>
        /\ hres.res.ok
        /\ \A pr \in RefsOf(hres.res.val, <<>>) :
              pr[2].scope = InnermostBinding(hres.data.val, pr[1], pr[2].label)
        /\ \A cb \in BOOLEAN :
              hres.data.val = ScopeTree({"AB"}, cb) =>
                 /\ <<<<"A", "B", "C">>, [Ref("x") EXCEPT !.scope = BoundIn(<<"A", "B">>)]>>
                        \in RefsOf(hres.res.val, <<>>)
                 /\ <<<<"A", "D">>, Ref("x")>> \in RefsOf(hres.res.val, <<>>)

\* C5 witness: x is declared in [A, B] and in [A]; the reference in [A, B, C]
\* is bound to [A, B] and the one in the sibling [A, D] to [A].
C5_Witness ==
    /\ Rendered
    /\ hres.data.val = ScopeTree({"AB", "A"}, FALSE)
    /\ <<<<"A", "B", "C">>, [Ref("x") EXCEPT !.scope = BoundIn(<<"A", "B">>)]>>
           \in RefsOf(hres.res.val, <<>>)
    /\ <<<<"A", "D">>, [Ref("x") EXCEPT !.scope = BoundIn(<<"A">>)]>>
           \in RefsOf(hres.res.val, <<>>)

\* The process names a model buffer mentions: its identifier characters.
ModelProcs(t) == {t[k] : k \in 1..Len(t)} \ {" ", "\n", "\t", "\r", "[", "]", "-"}

\* The top-level elements of the evaluated query that name a process.
QueryProcs(v) ==
    IF v.tag = "Process" /\ v.body.kind = "All"
    THEN {k \in 1..Len(v.body.vals) : IsNamedProcess(v.body.vals[k])}
    ELSE {}

BoxRule(x) == [rule |-> "box", name |-> x]

\* C6 as stated: the selection for a process named by the query is made when
\* the process appears in the model and is empty when it does not.
C6_RelativeToModel ==
    (Rendered /\ "eval" \in hres.res.ran) =>
        \A k \in QueryProcs(hres.data.val) :
            LET pname == ProcessName(hres.data.val.body.vals[k]) IN
            /\ pname \in ModelProcs(model) => styles.elems[k].rules = <<BoxRule(pname)>>
            /\ pname \notin ModelProcs(model) => styles.elems[k].rules = <<>>

\* C6 amended: the selection is computed from the query alone. Every top-level
\* element of the query that names a process pname yields the selection rule
\* for pname, whether or not the model mentions pname, and no error is raised.
C6_IndependentOfModel ==
    (Rendered /\ "eval" \in hres.res.ran) =>
        /\ hres.res.ok
        /\ styles.kind # "error"
        /\ \A k \in QueryProcs(hres.data.val) :
              styles.elems[k].rules = <<BoxRule(ProcessName(hres.data.val.body.vals[k]))>>

\* C6 witness: the query names z, the model does not mention z, and the
\* selection rule for z is made.
C6_Witness ==
    /\ Rendered
    /\ "eval" \in hres.res.ran
    /\ hres.data.val = Query(<<Ref("z")>>)
    /\ "z" \notin ModelProcs(model)
    /\ "a" \in ModelProcs(model)
    /\ styles.elems[1].rules = <<BoxRule("z")>>

(***************************************************************************)
(* Properties of the coroutines.                                           *)
(***************************************************************************)
\* A text of whitespace characters only (the empty text included).
AllWhitespace(t) == \A k \in 1..Len(t) : IsWhitespace(t[k])

\* C4 as stated: blank input is no error on either text path. A render of a
\* blank highlight buffer gets Ok(Val::default()) with no stage of the pipeline
\* run, and for every blank model text the model coroutine receives it makes
\* the default Drawing without calling draw and sends it.
C4_BlankAlwaysSent ==
    /\ (Rendered /\ AllWhitespace(hres.data.text)) =>
          /\ hres.res.ok
          /\ hres.res.val = ValDefault
          /\ hres.res.ran = {}
          /\ styles.kind = "empty"
    /\ AllWhitespace(cycle.text) =>
          /\ ~cycle.drew
          /\ cycle.result = "default"
          /\ cycle.sent = DefaultDrawing

\* C4 amended: blank input is no error on either text path. A render of a
\* blank highlight buffer gets Ok(Val::default()) with no stage of the pipeline
\* run. A blank model text received by the model coroutine never reaches draw
\* and never fails: the default Drawing is made and sent for it, except when
\* it is the text of prev_model already; then the check against prev_model
\* skips it and nothing is made or sent.
C4_BlankNoError ==
    /\ (Rendered /\ AllWhitespace(hres.data.text)) =>
          /\ hres.res.ok
          /\ hres.res.val = ValDefault
          /\ hres.res.ran = {}
          /\ styles.kind = "empty"
    /\ AllWhitespace(cycle.text) =>
          /\ ~cycle.drew
          /\ cycle.result \in {"default", "skipped"}
          /\ cycle.result = "default" => cycle.sent = DefaultDrawing
          /\ cycle.result = "skipped" =>
                (cycle.sent = NoDrawing /\ prev_model = Some(cycle.text))

\* C4 witness: a whitespace-only model text was received, the default drawing
\* was sent for it, the same text sent again by the render was skipped with
\* nothing sent, and a whitespace-only highlight buffer was rendered.
C4_Witness ==
    /\ cycle.text = <<" ", "\n">>
    /\ cycle.prevText = <<" ", "\n">>
    /\ cycle.prevResult = "default"
    /\ cycle.result = "skipped"
    /\ cycle.sent = NoDrawing
    /\ prev_model = Some(<<" ", "\n">>)
    /\ Rendered
    /\ hres.data.text = <<" ">>
    /\ hres.res.ok

\* C7: a cycle that ends with an error returned by draw or with a caught panic
\* sends no drawing, leaves the displayed drawing and prev_model as they were,
\* and leaves the coroutine awaiting the next message.
C7_FailedCycleChangesNothing ==
    [][(pc = "draw" /\ pc' # "draw" /\ drawFn[cur.text] \in {"err", "panic"}) =>
          /\ drawingQ' = drawingQ
          /\ drawing' = drawing
          /\ prev_model' = prev_model
          /\ cycle'.sent = NoDrawing
          /\ pc' = "idle"]_vars

\* C7 witness: after a cycle that panicked, the next edit has been received
\* and drawn, while a drawing of an earlier cycle is on display.
C7_Witness ==
    /\ cycle.prevResult = "panic"
    /\ cycle.result = "ok"
    /\ pc = "idle"

\* C8 as stated: whenever the text received equals the text received just
\* before it, no draw is run and no drawing is sent for it.
C8_ConsecutiveSkipped ==
    (cycle.text # NoText /\ cycle.text = cycle.prevText) =>
        (~cycle.drew /\ cycle.sent = NoDrawing)

\* C8 amended: the check is against prev_model, the last text processed with
\* success. Of two identical texts received consecutively the second is
\* skipped when the cycle of the first ended with success or was itself
\* skipped, and is drawn again when the cycle of the first failed.
C8_SkippedAfterSuccess ==
    (cycle.text # NoText /\ cycle.text = cycle.prevText) =>
        IF cycle.prevResult \in {"ok", "default", "skipped"}
        THEN cycle.result = "skipped" /\ ~cycle.drew /\ cycle.sent = NoDrawing
        ELSE cycle.prevResult \in {"err", "panic"} /\ cycle.drew

\* C8 witness: the text just drawn with success is received again and skipped.
C8_Witness ==
    /\ cycle.text = cycle.prevText
    /\ cycle.prevResult = "ok"
    /\ cycle.result = "skipped"

\* The message of input event k is in the model channel or inside draw.
InFlight(k) ==
    \/ \E i \in 1..Len(modelQ) : modelQ[i].edit = k
    \/ pc = "draw" /\ cur.edit = k

\* The drawing of the last successful cycle.
LastDrawn == IF prev_model.some THEN ResultOf(prev_model.v) ELSE DefaultDrawing

Drained == modelQ = <<>> /\ drawingQ = <<>> /\ pc = "idle"

\* C9: every edit sent to the model channel, also one sent while an older edit
\* is inside draw, is eventually received and its cycle completed; and whenever
\* the channels are drained the drawing on display is that of the newest
\* successful cycle.
C9_LatestEditWins ==
    /\ \A k \in 1..MaxEdits : InFlight(k) ~> (doneEdit >= k)
    /\ [](Drained => drawing = LastDrawn)

\* C9 witness: edit 2 waits in the channel while edit 1 is inside draw.
C9_Witness ==
    /\ pc = "draw"
    /\ cur.edit = 1
    /\ \E i \in 1..Len(modelQ) : modelQ[i].edit = 2

Quiescent == ~dirty /\ Drained

\* C10 as stated: with the check removed the system still ends up displaying
\* the drawing of the newest drawable edit and finishes its work.
C10_NoDedupFinishes ==
    /\ <>[](drawing = expected)
    /\ <>[]Quiescent

\* C10 amended: with the check removed the display still settles on the same
\* drawing, that of the newest edit that draws with success, but the work does
\* not finish: when the text in the model textarea draws with success, every
\* delivered drawing causes a render that sends the text again, and the text
\* is drawn again, for ever.
C10_NoDedupSameDrawingNoRest ==
    /\ <>[](drawing = expected)
    /\ (<>[]Drawable(model)) => []<>(modelQ # <<>>)

\* C10 witness (check removed): the text drawn with success just before is
\* received again and drawn again.
C10_Witness ==
    /\ cycle.text = cycle.prevText
    /\ cycle.prevResult = "ok"
    /\ cycle.result = "ok"
    /\ drawing = expected

(***************************************************************************)
(* Properties of the token loop of parse_highlights.                       *)
(***************************************************************************)
\* The tokens of the buffer parsed last, and the verdict of the parser on it.
ParsedTokens == Lex(hres.data.text)
RejectedAtToken == hres.data.rejectAt \in 1..Len(ParsedTokens)
RejectedAtEnd == hres.data.rejectAt = Len(ParsedTokens) + 1
NoEval == hres.res.ran \cap {"eval", "index", "resolve"} = {}

\* The part of C11 about the tokens: the first rejected token ends the parse
\* with an error carrying its span and its text, it is the last token fed,
\* and eval, index and resolve are not run.
C11_TokenRejection ==
    (Rendered /\ ~IsBlank(hres.data.text) /\ RejectedAtToken) =>
        /\ ~hres.res.ok
        /\ hres.res.err.span = ParsedTokens[hres.data.rejectAt].span
        /\ hres.res.err.text = ParsedTokens[hres.data.rejectAt].slice
        /\ hres.res.fed = hres.data.rejectAt
        /\ NoEval

\* The part of C11 about Ok: it is returned only when every token and
\* end_of_input were accepted, and then every token was fed.
C11_OkOnlyIfAllAccepted ==
    (Rendered /\ ~IsBlank(hres.data.text) /\ hres.res.ok) =>
        /\ ~RejectedAtToken
        /\ ~RejectedAtEnd
        /\ hres.res.fed = Len(ParsedTokens)

\* C11 as stated: tokens are fed one at a time in lexer order, the first
\* rejection returns an error with the span and text of the rejected token
\* without feeding a later token or running eval, index and resolve, Ok needs
\* every token and end_of_input accepted, and a rejection at end_of_input
\* returns an error carrying the span and text of the last token lexed.
C11_EndErrorNamesLastToken ==
    /\ C11_TokenRejection
    /\ C11_OkOnlyIfAllAccepted
    /\ (Rendered /\ ~IsBlank(hres.data.text) /\ RejectedAtEnd) =>
          /\ ~hres.res.ok
          /\ hres.res.err.span = ParsedTokens[Len(ParsedTokens)].span
          /\ hres.res.err.text = ParsedTokens[Len(ParsedTokens)].slice

\* C11 corrected: as above for the tokens and for Ok; a rejection at
\* end_of_input returns, after every token was fed and without running eval,
\* index and resolve, an error whose span is the empty span at the end of the
\* buffer and whose text is empty (the lexer is exhausted when it is asked),
\* not the span and text of the last token.
C11_EndErrorAtEndOfBuffer ==
    /\ C11_TokenRejection
    /\ C11_OkOnlyIfAllAccepted
    /\ (Rendered /\ ~IsBlank(hres.data.text) /\ RejectedAtEnd) =>
          /\ ~hres.res.ok
          /\ hres.res.fed = Len(ParsedTokens)
          /\ NoEval
          /\ hres.res.err.span = <<Len(hres.data.text), Len(hres.data.text)>>
          /\ hres.res.err.text = <<>>
          /\ hres.res.err.span # ParsedTokens[Len(ParsedTokens)].span
          /\ hres.res.err.text # ParsedTokens[Len(ParsedTokens)].slice

\* C11 witness: "k [ - s" was parsed, its four tokens were fed, end_of_input
\* rejected, and the error is the empty span at offset 7.
C11_Witness ==
    /\ Rendered
    /\ hres.data.text = UnterminatedText
    /\ RejectedAtEnd
    /\ hres.res.fed = 4
    /\ ~hres.res.ok
    /\ hres.res.err.span = <<7, 7>>

(***************************************************************************)
(* Properties of the highlight selection over degenerate elements.         *)
(***************************************************************************)
\* The top-level body of the resolved query the selection was made over.
ResolvedBody == hres.res.val.body.vals
EdgeRule(p, q) == [rule |-> "edge", from |-> p, to |-> q]
IsAnonymousProcess(b) == b.tag = "Process" /\ b.name = NoName /\ b.label = NoName
IsUnnamedChain(b) == b.tag = "Chain" /\ b.name = NoName

\* C12: over the top-level body of the resolved query every element is
\* processed (one entry of styles per element, no error); a process with
\* neither name nor label selects nothing; an unnamed chain with fewer than
\* two path elements selects nothing; in an unnamed chain a pair of adjacent
\* path elements selects an arrow exactly when both ends are processes with a
\* name or a label; a process with both name and label is selected by name.
C12_DegenerateNoOps ==
    (Rendered /\ "eval" \in hres.res.ran /\ hres.res.val.body.kind = "All") =>
        /\ styles.kind = "styles"
        /\ Len(styles.elems) = Len(ResolvedBody)
        /\ \A k \in 1..Len(ResolvedBody) :
              LET b == ResolvedBody[k]
                  rules == styles.elems[k].rules
              IN /\ IsAnonymousProcess(b) => rules = <<>>
                 /\ (IsUnnamedChain(b) /\ Len(b.path) < 2) => rules = <<>>
                 /\ (IsUnnamedChain(b) /\ Len(b.path) >= 2) =>
                       /\ Len(rules) = Len(b.path) - 1
                       /\ \A j \in 1..(Len(b.path) - 1) :
                             IF IsNamedProcess(b.path[j]) /\ IsNamedProcess(b.path[j + 1])
                             THEN rules[j] = <<EdgeRule(ProcessName(b.path[j]),
                                                        ProcessName(b.path[j + 1]))>>
                             ELSE rules[j] = <<>>
                 /\ (b.tag = "Process" /\ b.name # NoName /\ b.label # NoName) =>
                       rules = <<BoxRule(b.name)>>

\* C12 witness: the query "[ ] / - a / - a k [ ] / s:b" was rendered: the
\* anonymous process and the one-element chain select nothing, the chain
\* selects the arrow a-k and nothing for the pair of k and the anonymous
\* process, and the process after them is selected by its name s.
C12_Witness ==
    /\ Rendered
    /\ "eval" \in hres.res.ran
    /\ Len(ResolvedBody) = 4
    /\ IsAnonymousProcess(ResolvedBody[1])
    /\ styles.elems[1].rules = <<>>
    /\ styles.elems[2].rules = <<>>
    /\ styles.elems[3].rules = <<<<EdgeRule("a", "k")>>, <<>>>>
    /\ styles.elems[4].rules = <<BoxRule("s")>>

(***************************************************************************)
(* Properties of the loop between the render and the model coroutine.      *)
(***************************************************************************)
\* C13: every render sends the model text and every delivered drawing causes
\* a render, and still, the user typing finitely often, the system reaches a
\* state it never leaves in which both channels are empty, no render is
\* pending and no draw is running, whatever the outcome of the last draw.
C13_LoopQuiesces == <>[]Quiescent

\* C13 witness: the user has stopped typing; the text sent by the input event
\* and sent again by the render that followed was drawn twice, draw panicked
\* both times, and the system is at rest.
C13_Witness ==
    /\ Quiescent
    /\ edits = MaxEdits
    /\ cycle.drew
    /\ cycle.text = cycle.prevText
    /\ cycle.prevResult = "panic"
    /\ cycle.result = "panic"

\* A step that ends a cycle with success: the drawing of the received text
\* is sent, and is the default drawing when the text is blank.
SuccessfulCycleStep ==
    /\ cycle'.result \in {"ok", "default"}
    /\ prev_model' = Some(cycle'.text)
    /\ drawingQ' = Append(drawingQ, ResultOf(cycle'.text))
    /\ IsBlank(cycle'.text) => ResultOf(cycle'.text) = DefaultDrawing

\* C14: prev_model changes only in a step that ends a cycle with success, and
\* in every state where both channels are empty the drawing on display is the
\* result of processing prev_model: the default drawing when prev_model is None
\* or blank, the drawing of its text otherwise.
C14_PrevModelMatchesDisplay ==
    /\ [][prev_model' # prev_model => SuccessfulCycleStep]_vars
    /\ []((modelQ = <<>> /\ drawingQ = <<>>) =>
            /\ drawing = LastDrawn
            /\ (~prev_model.some \/ IsBlank(prev_model.v)) => drawing = DefaultDrawing)

\* C14 witness: both channels are empty, the cycle that ended last failed on
\* a text other than prev_model, and the display still shows the drawing of
\* prev_model, the newest text drawn with success.
C14_Witness ==
    /\ modelQ = <<>>
    /\ drawingQ = <<>>
    /\ pc = "idle"
    /\ prev_model.some
    /\ cycle.result \in {"err", "panic"}
    /\ cycle.text # prev_model.v
    /\ drawing = DrawingOf(prev_model.v)

====
